---- MODULE Spec2Model ----
(***************************************************************************)
(* People Protocol Skill Builder: transform_skill (prompt, model call,     *)
(* JSON extraction, per-level validation), the batch transformation of     *)
(* main's menu option 4, and the selection kept by options 1, 2 and 3.     *)
(*                                                                         *)
(* Text is a sequence of tokens.  A token is a run of characters the code  *)
(* never looks inside: the fence of three backquotes, a word such as      *)
(* "json" or "poor", one punctuation character of JSON, one whitespace     *)
(* character.                                                              *)
(***************************************************************************)
EXTENDS Integers, Sequences, FiniteSets, TLC

VARIABLES
    skill,            \* transform_skill: the skill argument of the latest call
    client,           \* transform_skill: what the model client does in that call
    call,             \* transform_skill: how that call ended, with its locals
    selected_skills,  \* main: the selection
    remove,           \* main: option 3's latest input
    pc,               \* main: "menu" | "batch" | "exit"
    idx,              \* main: option 4's loop index into selected_skills
    transformed,      \* main: option 4's list of results
    report,           \* main: option 4's printed progress lines
    output_file       \* the contents of OUTPUT_FILE

vars == <<skill, client, call, selected_skills, remove, pc, idx, transformed, report, output_file>>

(***************************************************************************)
(* Bounds                                                                  *)
(***************************************************************************)
MaxStatements == 3
MaxSelected == 2

(***************************************************************************)
(* Tokens                                                                  *)
(***************************************************************************)
\* FENCE stands for the three backquotes that open or close a fenced block.
FENCE == "<fence>"
QUOTE == "\""
SPACE == " "
NEWLINE == "\n"

Whitespace == {SPACE, NEWLINE}

\* str.strip(): leading and trailing whitespace removed.
RECURSIVE LStrip(_)
LStrip(s) ==
    IF s # <<>> /\ Head(s) \in Whitespace THEN LStrip(Tail(s)) ELSE s

RECURSIVE RStrip(_)
RStrip(s) ==
    IF s # <<>> /\ s[Len(s)] \in Whitespace THEN RStrip(SubSeq(s, 1, Len(s) - 1)) ELSE s

Strip(s) == RStrip(LStrip(s))

\* Whether sep occurs in s at position p.
OccursAt(s, sep, p) ==
    /\ p >= 1
    /\ p + Len(sep) - 1 <= Len(s)
    /\ \A k \in 1..Len(sep) : s[p + k - 1] = sep[k]

\* The position of the first occurrence of sep in s, 0 when there is none.
Find(s, sep) ==
    LET hits == {p \in 1..Len(s) : OccursAt(s, sep, p)}
    IN  IF hits = {} THEN 0 ELSE CHOOSE p \in hits : \A q \in hits : p <= q

\* `sep in s`
Contains(s, sep) == Find(s, sep) # 0

\* s.split(sep): the pieces between the non-overlapping occurrences of sep,
\* found left to right.
RECURSIVE Split(_, _)
Split(s, sep) ==
    LET p == Find(s, sep)
    IN  IF p = 0 THEN <<s>>
        ELSE <<SubSeq(s, 1, p - 1)>> \o Split(SubSeq(s, p + Len(sep), Len(s)), sep)

(***************************************************************************)
(* JSON values: [t, v] with t the type.                                    *)
(*   "obj": v a function from keys (token sequences) to values             *)
(*   "arr": v a sequence of values                                         *)
(*   "str": v the token sequence between the quotes                        *)
(*   "null": v empty                                                       *)
(* Numbers and booleans are left out: no response text drawn below holds   *)
(* one, and the code treats them as it treats a string or null (no list,   *)
(* no mapping).                                                            *)
(***************************************************************************)
JNull == [t |-> "null", v |-> <<>>]
JStr(s) == [t |-> "str", v |-> s]
JArr(a) == [t |-> "arr", v |-> a]
JObj(f) == [t |-> "obj", v |-> f]

EmptyMap == [k \in {} |-> JNull]

\* dict item assignment: a later duplicate key replaces the earlier one.
Put(f, key, val) ==
    [k \in DOMAIN f \cup {key} |-> IF k = key THEN val ELSE f[k]]

Fail(p) == [ok |-> FALSE, val |-> JNull, pos |-> p]
Ok(val, p) == [ok |-> TRUE, val |-> val, pos |-> p]

RECURSIVE SkipWs(_, _)
SkipWs(s, i) ==
    IF i <= Len(s) /\ s[i] \in Whitespace THEN SkipWs(s, i + 1) ELSE i

\* The string whose opening quote is at i - 1: up to the next quote; a raw
\* newline inside a string is a control character, which the decoder rejects.
RECURSIVE ParseString(_, _, _)
ParseString(s, i, acc) ==
    IF i > Len(s) THEN Fail(i)
    ELSE IF s[i] = QUOTE THEN Ok(JStr(acc), i + 1)
    ELSE IF s[i] = NEWLINE THEN Fail(i)
    ELSE ParseString(s, i + 1, Append(acc, s[i]))

RECURSIVE ParseValue(_, _)
RECURSIVE ParseMembers(_, _, _)
RECURSIVE ParseElements(_, _, _)

\* After "{" or ",": a key string, ":", a value, then "," or "}".
ParseMembers(s, i, acc) ==
    LET k == SkipWs(s, i)
    IN  IF k > Len(s) \/ s[k] # QUOTE THEN Fail(k)
        ELSE
          LET key == ParseString(s, k + 1, <<>>)
              c == SkipWs(s, key.pos)
          IN  IF ~key.ok \/ c > Len(s) \/ s[c] # ":" THEN Fail(c)
              ELSE
                LET val == ParseValue(s, SkipWs(s, c + 1))
                    e == SkipWs(s, val.pos)
                    acc2 == Put(acc, key.val.v, val.val)
                IN  IF ~val.ok \/ e > Len(s) THEN Fail(e)
                    ELSE IF s[e] = "}" THEN Ok(JObj(acc2), e + 1)
                    ELSE IF s[e] = "," THEN ParseMembers(s, e + 1, acc2)
                    ELSE Fail(e)

\* After "[" or ",": a value, then "," or "]".
ParseElements(s, i, acc) ==
    LET val == ParseValue(s, SkipWs(s, i))
        e == SkipWs(s, val.pos)
    IN  IF ~val.ok \/ e > Len(s) THEN Fail(e)
        ELSE IF s[e] = "]" THEN Ok(JArr(Append(acc, val.val)), e + 1)
        ELSE IF s[e] = "," THEN ParseElements(s, e + 1, Append(acc, val.val))
        ELSE Fail(e)

ParseValue(s, i) ==
    IF i > Len(s) THEN Fail(i)
    ELSE IF s[i] = QUOTE THEN ParseString(s, i + 1, <<>>)
    ELSE IF s[i] = "null" THEN Ok(JNull, i + 1)
    ELSE IF s[i] = "{" THEN
        LET k == SkipWs(s, i + 1)
        IN  IF k <= Len(s) /\ s[k] = "}" THEN Ok(JObj(EmptyMap), k + 1)
            ELSE ParseMembers(s, i + 1, EmptyMap)
    ELSE IF s[i] = "[" THEN
        LET k == SkipWs(s, i + 1)
        IN  IF k <= Len(s) /\ s[k] = "]" THEN Ok(JArr(<<>>), k + 1)
            ELSE ParseElements(s, i + 1, <<>>)
    ELSE Fail(i)

\* json.loads(s): one value with whitespace around it and nothing after it;
\* anything else raises JSONDecodeError, which carries the document.
Loads(s) ==
    LET r == ParseValue(s, SkipWs(s, 1))
    IN  IF r.ok /\ SkipWs(s, r.pos) > Len(s)
        THEN [ok |-> TRUE, val |-> r.val]
        ELSE [ok |-> FALSE, val |-> JNull]

(***************************************************************************)
(* Python values of a skill record: a string or None.                      *)
(***************************************************************************)
PyStr(s) == [t |-> "str", s |-> s]
PyNone == [t |-> "none", s |-> ""]

\* dict.get(key, default)
Get(d, key, default) == IF key \in DOMAIN d THEN d[key] ELSE default

\* What str.format() substitutes for a value: str(value).
Format(x) == IF x.t = "none" THEN "None" ELSE x.s

NO_DESCRIPTION == "No description available"

\* TRANSFORMATION_PROMPT.format(...): the fixed template with its three
\* fields filled in; the prompt is given by the three substituted texts.
BuildPrompt(sk) ==
    [ skill_name        |-> Format(Get(sk, "name", PyStr(""))),
      skill_description |-> Format(Get(sk, "description", PyStr(NO_DESCRIPTION))),
      skill_id          |-> Format(Get(sk, "id", PyStr(""))) ]

(***************************************************************************)
(* Exceptions: the type, and what the exception carries.                   *)
(*   doc: the document of a JSONDecodeError                                *)
(*   violations: the entries joined into the ValueError's message          *)
(*   notes: what the raising code attached about the skill being worked on *)
(***************************************************************************)
NoError == [type |-> "none", doc |-> <<>>, violations |-> <<>>, notes |-> <<>>]
JSONDecodeError(doc) ==
    [type |-> "JSONDecodeError", doc |-> doc, violations |-> <<>>, notes |-> <<>>]
ValueError(violations) ==
    [type |-> "ValueError", doc |-> <<>>, violations |-> violations, notes |-> <<>>]
AttributeError ==
    [type |-> "AttributeError", doc |-> <<>>, violations |-> <<>>, notes |-> <<>>]
IndexError ==
    [type |-> "IndexError", doc |-> <<>>, violations |-> <<>>, notes |-> <<>>]
APIError ==
    [type |-> "APIError", doc |-> <<>>, violations |-> <<>>, notes |-> <<>>]

(***************************************************************************)
(* The model client.  cl.kind says what messages.create does:              *)
(*   "raise": raises; "empty": a message with no content block;            *)
(*   "text": a message whose first content block holds cl.text.            *)
(* cl.calls counts the invocations of messages.create.                     *)
(***************************************************************************)
MessagesCreate(cl, prompt) ==
    [ raised  |-> cl.kind = "raise",
      content |-> IF cl.kind = "text" THEN <<cl.text>> ELSE <<>>,
      calls   |-> cl.calls + 1 ]

TAG == <<FENCE, "json">>

\* ExtractJson as it would be if a failed fenced substring re-raised the
\* failure of the whole text.
ExtractJsonReraising(response_text) ==
    LET direct == Loads(response_text)
        open == IF Contains(response_text, TAG) THEN TAG ELSE <<FENCE>>
        json_str == Strip(Split(Split(response_text, open)[2], <<FENCE>>)[1])
    IN  IF direct.ok
        THEN [ok |-> TRUE, val |-> direct.val, tier |-> 1, error |-> NoError]
        ELSE IF Contains(response_text, <<FENCE>>) /\ Loads(json_str).ok
        THEN [ok |-> TRUE, val |-> Loads(json_str).val,
              tier |-> IF open = TAG THEN 2 ELSE 3, error |-> NoError]
        ELSE [ok |-> FALSE, val |-> JNull, tier |-> 1,
              error |-> JSONDecodeError(response_text)]

\* ExtractJson as it would be if a failed tagged substring fell through to
\* the first fenced substring.
ExtractJsonFallingThrough(response_text) ==
    LET direct == Loads(response_text)
        tagged == IF Contains(response_text, TAG)
                  THEN Strip(Split(Split(response_text, TAG)[2], <<FENCE>>)[1])
                  ELSE <<>>
        first == IF Contains(response_text, <<FENCE>>)
                 THEN Strip(Split(Split(response_text, <<FENCE>>)[2], <<FENCE>>)[1])
                 ELSE <<>>
    IN  IF direct.ok
        THEN [ok |-> TRUE, val |-> direct.val, tier |-> 1, error |-> NoError]
        ELSE IF Contains(response_text, TAG) /\ Loads(tagged).ok
        THEN [ok |-> TRUE, val |-> Loads(tagged).val, tier |-> 2, error |-> NoError]
        ELSE IF Contains(response_text, <<FENCE>>) /\ Loads(first).ok
        THEN [ok |-> TRUE, val |-> Loads(first).val, tier |-> 3, error |-> NoError]
        ELSE IF Contains(response_text, <<FENCE>>)
        THEN [ok |-> FALSE, val |-> JNull, tier |-> 3, error |-> JSONDecodeError(first)]
        ELSE [ok |-> FALSE, val |-> JNull, tier |-> 1,
              error |-> JSONDecodeError(response_text)]

\* Lines 242-253: json.loads of the whole text; on JSONDecodeError the
\* substring after a tagged fence, else after a fence, else re-raise.
ExtractJson(response_text) ==
    LET direct == Loads(response_text)
    IN  IF direct.ok
        THEN [ok |-> TRUE, val |-> direct.val, tier |-> 1, error |-> NoError]
        ELSE IF Contains(response_text, TAG)
        THEN LET json_str == Strip(Split(Split(response_text, TAG)[2], <<FENCE>>)[1])
                 r == Loads(json_str)
             IN  IF r.ok
                 THEN [ok |-> TRUE, val |-> r.val, tier |-> 2, error |-> NoError]
                 ELSE [ok |-> FALSE, val |-> JNull, tier |-> 2,
                       error |-> JSONDecodeError(json_str)]
        ELSE IF Contains(response_text, <<FENCE>>)
        THEN LET json_str == Strip(Split(Split(response_text, <<FENCE>>)[2], <<FENCE>>)[1])
                 r == Loads(json_str)
             IN  IF r.ok
                 THEN [ok |-> TRUE, val |-> r.val, tier |-> 3, error |-> NoError]
                 ELSE [ok |-> FALSE, val |-> JNull, tier |-> 3,
                       error |-> JSONDecodeError(json_str)]
        ELSE [ok |-> FALSE, val |-> JNull, tier |-> 1,
              error |-> JSONDecodeError(response_text)]

levels == <<"poor", "basic", "intermediate", "advanced", "exceptional">>

MinStatements == 2

\* TooFew with the minimum off by one.
TooFewOffByOne(statements) == statements.t # "arr" \/ Len(statements.v) < MinStatements - 1

\* Line 261: not isinstance(statements, list) or len(statements) < 2
TooFew(statements) == statements.t # "arr" \/ Len(statements.v) < MinStatements

\* Line 263: the count the message gives.
Found(statements) == IF statements.t = "arr" THEN Len(statements.v) ELSE 0

\* Lines 259-264: the loop over the levels from position k on; lv is the
\* mapping result.get("levels", {}).
RECURSIVE ValidationErrors(_, _)
ValidationErrors(lv, k) ==
    IF k > Len(levels) THEN <<>>
    ELSE LET statements == Get(lv, <<levels[k]>>, JArr(<<>>))
         IN  (IF TooFew(statements)
              THEN <<[level |-> levels[k], found |-> Found(statements)]>>
              ELSE <<>>) \o ValidationErrors(lv, k + 1)

\* Lines 256-270.  .get on anything but a dict raises AttributeError.
Validate(result) ==
    IF result.t # "obj" THEN [ok |-> FALSE, error |-> AttributeError]
    ELSE LET lv == Get(result.v, <<"levels">>, JObj(EmptyMap))
         IN  IF lv.t # "obj" THEN [ok |-> FALSE, error |-> AttributeError]
             ELSE LET validation_errors == ValidationErrors(lv.v, 1)
                  IN  IF validation_errors # <<>>
                      THEN [ok |-> FALSE, error |-> ValueError(validation_errors)]
                      ELSE [ok |-> TRUE, error |-> NoError]

NotParsed == [ok |-> FALSE, val |-> JNull, tier |-> 0, error |-> NoError]

Raised(prompt, calls, text, parse, error) ==
    [ status |-> "raised", prompt |-> prompt, calls |-> calls, response_text |-> text,
      parse |-> parse, result |-> JNull, error |-> error ]

\* Lines 239-270: from the message to the end of the call.
Outcome(prompt, message) ==
    IF message.content = <<>>
    THEN Raised(prompt, message.calls, <<>>, NotParsed, IndexError)
    ELSE
      LET response_text == Strip(message.content[1])
          parse == ExtractJson(response_text)
      IN  IF ~parse.ok
          THEN Raised(prompt, message.calls, response_text, parse, parse.error)
          ELSE
            LET checked == Validate(parse.val)
            IN  IF ~checked.ok
                THEN Raised(prompt, message.calls, response_text, parse, checked.error)
                ELSE [ status |-> "returned", prompt |-> prompt,
                       calls |-> message.calls, response_text |-> response_text,
                       parse |-> parse, result |-> parse.val, error |-> NoError ]

\* TransformSkill as it would be if a failed attempt invoked the model once
\* more.
TransformSkillRetrying(cl, sk) ==
    LET prompt == BuildPrompt(sk)
        message == MessagesCreate(cl, prompt)
        again == MessagesCreate([cl EXCEPT !.calls = message.calls], prompt)
    IN  IF message.raised
        THEN Raised(prompt, message.calls, <<>>, NotParsed, APIError)
        ELSE IF Outcome(prompt, message).status = "raised"
        THEN Outcome(prompt, again)
        ELSE Outcome(prompt, message)

\* transform_skill(client, skill): how the call ends, with its locals.
TransformSkill(cl, sk) ==
    LET prompt == BuildPrompt(sk)
        message == MessagesCreate(cl, prompt)
    IN  IF message.raised
        THEN Raised(prompt, message.calls, <<>>, NotParsed, APIError)
        ELSE Outcome(prompt, message)

(***************************************************************************)
(* Inputs: the skills the catalogue returns.  Lightcast is asked for the   *)
(* fields id, name and description; a description may be missing, empty    *)
(* or null.                                                                *)
(***************************************************************************)
Catalogue ==
    << [id |-> PyStr("ID1"), name |-> PyStr("N1"), description |-> PyStr("d1")],
       [id |-> PyStr("ID2"), name |-> PyStr("N2")],
       [id |-> PyStr("ID3"), name |-> PyStr("N3"), description |-> PyStr("")],
       [id |-> PyStr("ID4"), name |-> PyStr("N4"), description |-> PyNone] >>

Skills == {Catalogue[k] : k \in 1..Len(Catalogue)}

(***************************************************************************)
(* Inputs: response texts, written in the output format the prompt asks    *)
(* for (lines 148-159) and in the ways a model departs from it.            *)
(***************************************************************************)
Lit(w) == <<QUOTE, w, QUOTE>>

\* The shapes of one level's entry: no entry, null, a string, a list of n.
Absent == [kind |-> "absent", n |-> 0]
Shapes ==
    {Absent, [kind |-> "null", n |-> 0], [kind |-> "str", n |-> 0]}
        \cup {[kind |-> "list", n |-> n] : n \in 0..MaxStatements}

RECURSIVE StatementList(_)
StatementList(n) ==
    IF n = 0 THEN <<>>
    ELSE IF n = 1 THEN Lit("s")
    ELSE StatementList(n - 1) \o <<",", SPACE>> \o Lit("s")

ShapeText(sh) ==
    IF sh.kind = "null" THEN <<"null">>
    ELSE IF sh.kind = "str" THEN Lit("s")
    ELSE <<"[">> \o StatementList(sh.n) \o <<"]">>

\* The members "level": value of the levels from position k on, for the
\* levels that have an entry; first says whether a member was written yet.
RECURSIVE LevelMembers(_, _, _)
LevelMembers(cfg, k, first) ==
    IF k > Len(levels) THEN <<>>
    ELSE IF cfg[k].kind = "absent" THEN LevelMembers(cfg, k + 1, first)
    ELSE (IF first THEN <<>> ELSE <<",", NEWLINE>>)
         \o Lit(levels[k]) \o <<":", SPACE>> \o ShapeText(cfg[k])
         \o LevelMembers(cfg, k + 1, FALSE)

LevelsText(cfg) == <<"{">> \o LevelMembers(cfg, 1, TRUE) \o <<"}">>

\* A JSON object text with the given description tokens, lightcast_id member
\* (none when idTokens is empty) and levels value.
ObjectText(description, idTokens, levelsValue) ==
    <<"{", NEWLINE>>
    \o Lit("name") \o <<":", SPACE>> \o Lit("N") \o <<",", NEWLINE>>
    \o Lit("description") \o <<":", SPACE, QUOTE>> \o description \o <<QUOTE, ",", NEWLINE>>
    \o (IF idTokens = <<>> THEN <<>>
        ELSE Lit("lightcast_id") \o <<":", SPACE>> \o Lit(idTokens[1]) \o <<",", NEWLINE>>)
    \o Lit("levels") \o <<":", SPACE>> \o levelsValue
    \o <<NEWLINE, "}">>

\* Level shapes: every level a list of 2, but for at most two levels.
AtBoundary == [kind |-> "list", n |-> MinStatements]
LevelConfigs ==
    { [k \in 1..Len(levels) |-> IF k = a THEN x ELSE IF k = b THEN y ELSE AtBoundary] :
        <<a, b, x, y>> \in
            {q \in (1..Len(levels)) \X (1..Len(levels)) \X Shapes \X Shapes : q[1] <= q[2]} }

AllAtBoundary == [k \in 1..Len(levels) |-> AtBoundary]

\* Objects in the asked format that differ in the levels only.
LevelBodies == {ObjectText(<<"d">>, <<"ID1">>, LevelsText(cfg)) : cfg \in LevelConfigs}

\* Objects that differ in the rest: another or no lightcast_id, a description
\* that quotes a fence, a levels value that is no mapping or is missing, an
\* empty object.
OtherObjects ==
    { ObjectText(<<"d">>, <<"ID9">>, LevelsText(AllAtBoundary)),
      ObjectText(<<"d">>, <<>>, LevelsText(AllAtBoundary)),
      ObjectText(<<"use", SPACE, FENCE, "x", FENCE>>, <<"ID1">>, LevelsText(AllAtBoundary)),
      ObjectText(<<"d">>, <<"ID1">>, <<"null">>),
      ObjectText(<<"d">>, <<"ID1">>, Lit("s")),
      ObjectText(<<"d">>, <<"ID1">>, <<"[", "]">>),
      <<"{">> \o Lit("name") \o <<":", SPACE>> \o Lit("N") \o <<"}">>,
      <<"{", "}">> }

\* JSON that is no object, and text that is no JSON.
NonObjects ==
    { <<"[">> \o Lit("s") \o <<"]">>, Lit("s"), <<"null">>,
      <<"Sorry">>, <<"{">> \o Lit("name") \o <<":">>, <<>> }

\* The bodies that are also sent wrapped.
CoreBodies ==
    { ObjectText(<<"d">>, <<"ID1">>, LevelsText(AllAtBoundary)),
      ObjectText(<<"d">>, <<"ID1">>,
                 LevelsText([AllAtBoundary EXCEPT ![1] = [kind |-> "list", n |-> 1]])) }
        \cup OtherObjects \cup NonObjects

Styles == {"bare", "tagged", "untagged", "said", "said_tagged", "said_untagged"}

Before == <<"Here", SPACE, "it", SPACE, "is", ":", NEWLINE>>
After == <<NEWLINE, "Done", ".">>

\* A body as the model sends it: alone, in a fence with or without the json
\* tag, and each of these with commentary around it.
Fenced(open, body) == open \o <<NEWLINE>> \o body \o <<NEWLINE, FENCE>>

Wrap(style, body) ==
    IF style = "bare" THEN body
    ELSE IF style = "tagged" THEN Fenced(TAG, body)
    ELSE IF style = "untagged" THEN Fenced(<<FENCE>>, body)
    ELSE IF style = "said" THEN Before \o body \o After
    ELSE IF style = "said_tagged" THEN Before \o Fenced(TAG, body) \o After
    ELSE Before \o Fenced(<<FENCE>>, body) \o After

\* Two fenced blocks in one response.
TwoBlocks ==
    { Wrap(s1, b1) \o <<NEWLINE>> \o Wrap(s2, b2) :
        <<s1, b1, s2, b2>> \in
            {"tagged", "untagged"} \X {ObjectText(<<"d">>, <<"ID1">>, LevelsText(AllAtBoundary)), <<"Sorry">>}
            \X {"tagged", "untagged"} \X {<<"{", "}">>, <<"Sorry">>} }

ResponseTexts ==
    LevelBodies
        \cup {Wrap(style, body) : <<style, body>> \in Styles \X CoreBodies}
        \cup TwoBlocks
        \cup {<<SPACE, NEWLINE>> \o Wrap("bare", <<"{", "}">>) \o <<NEWLINE>>}

Clients ==
    {[kind |-> "text", text |-> t, calls |-> 0] : t \in ResponseTexts}
        \cup {[kind |-> "raise", text |-> <<>>, calls |-> 0],
              [kind |-> "empty", text |-> <<>>, calls |-> 0]}

\* OUTPUT_FILE: absent until option 4 writes it.
NoFile == [exists |-> FALSE, framework |-> "", version |-> "", skills |-> <<>>]

(***************************************************************************)
(* One call of transform_skill on any skill and any client.                *)
(***************************************************************************)
Pending == [status |-> "pending"]

\* main's local remove before option 3 has run: nothing typed yet.
NoInput == [bound |-> FALSE, items |-> <<>>]

InitTransform ==
    /\ skill \in Skills
    /\ client \in Clients
    /\ call = Pending
    /\ selected_skills = <<>>
    /\ remove = NoInput
    /\ pc = "call"
    /\ idx = 0
    /\ transformed = <<>>
    /\ report = <<>>
    /\ output_file = NoFile

CallTransformSkill ==
    /\ pc = "call"
    /\ call = Pending
    /\ call' = TransformSkill(client, skill)
    /\ client' = [client EXCEPT !.calls = call'.calls]
    /\ pc' = "called"
    /\ UNCHANGED <<skill, selected_skills, remove, idx, transformed, report, output_file>>

SpecTransform == InitTransform /\ [][CallTransformSkill]_vars

(***************************************************************************)
(* main: the menu loop.  Options 1 and 2 add to the selection, option 4    *)
(* transforms the selection and exports, option 5 leaves.                  *)
(***************************************************************************)
MaxResults == 2

\* The catalogue entries from position k on whose positions are in picks.
RECURSIVE Listed(_, _)
Listed(picks, k) ==
    IF k > Len(Catalogue) THEN <<>>
    ELSE (IF k \in picks THEN <<Catalogue[k]>> ELSE <<>>) \o Listed(picks, k + 1)

\* What a search returns: a list of distinct catalogue skills, in the
\* catalogue's order.
SearchResults ==
    {Listed(picks, 1) :
        picks \in {P \in SUBSET (1..Len(Catalogue)) : P # {} /\ Cardinality(P) <= MaxResults}}

\* What the user types at "Enter numbers to select": 'all', or numbers.
Selections ==
    {[all |-> TRUE, numbers |-> <<>>]}
        \cup {[all |-> FALSE, numbers |-> ns] :
                ns \in UNION {[1..n -> 0..(MaxResults + 1)] : n \in 1..2}}

\* Lines 380-383: the skills at the typed numbers that are in range.
RECURSIVE Picked(_, _)
Picked(skills, numbers) ==
    IF numbers = <<>> THEN <<>>
    ELSE LET i == Head(numbers) - 1
         IN  (IF 0 <= i /\ i < Len(skills) THEN <<skills[i + 1]>> ELSE <<>>)
             \o Picked(skills, Tail(numbers))

\* Lines 376-383 (and 406-413).
Extended(selected, skills, selection) ==
    IF selection.all THEN selected \o skills
    ELSE selected \o Picked(skills, selection.numbers)

\* The behaviours of the model client during a batch.
BatchClients ==
    {[kind |-> "text", text |-> t, calls |-> 0] :
        t \in { ObjectText(<<"d">>, <<"ID1">>, LevelsText(AllAtBoundary)),
                Fenced(TAG, ObjectText(<<"d">>, <<"ID9">>, LevelsText(AllAtBoundary))),
                ObjectText(<<"d">>, <<"ID1">>,
                           LevelsText([AllAtBoundary EXCEPT ![1] = [kind |-> "list", n |-> 1]])),
                <<"Sorry">> }}
        \cup {[kind |-> "raise", text |-> <<>>, calls |-> 0]}

NoSkill == [k \in {} |-> PyNone]
NoClient == [kind |-> "none", text |-> <<>>, calls |-> 0]

Init ==
    /\ skill = NoSkill
    /\ client = NoClient
    /\ call = Pending
    /\ selected_skills = <<>>
    /\ remove = NoInput
    /\ pc = "menu"
    /\ idx = 0
    /\ transformed = <<>>
    /\ report = <<>>
    /\ output_file = NoFile

\* What one search and one selection can add: Extended appends to the
\* selection, so the additions are those to an empty selection.
Additions ==
    {Extended(<<>>, skills, selection) :
        <<skills, selection>> \in SearchResults \X Selections}

\* Options 1 and 2: a search that found skills, and the user's selection.
SearchAndSelect ==
    /\ pc = "menu"
    /\ \E added \in Additions :
         /\ Len(selected_skills \o added) <= MaxSelected
         /\ selected_skills' = selected_skills \o added
    /\ UNCHANGED <<skill, client, call, remove, pc, idx, transformed, report, output_file>>

\* Option 4, lines 439-446: with a selection, the batch begins (with none,
\* a message is printed and nothing changes).  No call of this batch has
\* been made yet.
StartBatch ==
    /\ pc = "menu"
    /\ selected_skills # <<>>
    /\ transformed' = <<>>
    /\ report' = <<>>
    /\ idx' = 0
    /\ pc' = "batch"
    /\ skill' = NoSkill
    /\ client' = NoClient
    /\ call' = Pending
    /\ UNCHANGED <<selected_skills, remove, output_file>>

\* ProgressLine as it would be if the line showed the skill's id for its
\* name.
ProgressLineById(i, sk, c) ==
    [ i |-> i, name |-> sk["id"].s, ok |-> c.status = "returned",
      result |-> c.result, error |-> c.error ]

\* The progress line of one attempt: its number, the skill's name, and how
\* the attempt ended (the result is kept beside the line, it is not printed).
ProgressLine(i, sk, c) ==
    [ i |-> i, name |-> sk["name"].s, ok |-> c.status = "returned",
      result |-> c.result, error |-> c.error ]

\* Attempt as it would be without the try/except: a failed attempt ends the
\* batch.
AttemptUncaught(i, sk, c) ==
    [ transformed |-> IF c.status = "returned"
                      THEN Append(transformed, c.result) ELSE transformed,
      report |-> Append(report, ProgressLine(i, sk, c)),
      pc |-> IF c.status = "returned" THEN "batch" ELSE "menu" ]

\* Lines 447-454: one iteration; any Exception of transform_skill is caught.
\* pc says where the loop goes on.
Attempt(i, sk, c) ==
    [ transformed |-> IF c.status = "returned"
                      THEN Append(transformed, c.result) ELSE transformed,
      report |-> Append(report, ProgressLine(i, sk, c)),
      pc |-> "batch" ]

TransformNext ==
    /\ pc = "batch"
    /\ idx < Len(selected_skills)
    /\ skill' = selected_skills[idx + 1]
    /\ \E cl \in BatchClients :
         /\ call' = TransformSkill(cl, skill')
         /\ client' = [cl EXCEPT !.calls = call'.calls]
    /\ transformed' = Attempt(idx + 1, skill', call').transformed
    /\ report' = Attempt(idx + 1, skill', call').report
    /\ pc' = Attempt(idx + 1, skill', call').pc
    /\ idx' = idx + 1
    /\ UNCHANGED <<selected_skills, remove, output_file>>

\* Lines 456-468: the export.
Exported(file, skills) ==
    IF skills # <<>>
    THEN [exists |-> TRUE, framework |-> "People Protocol", version |-> "1.0",
          skills |-> skills]
    ELSE file

FinishBatch ==
    /\ pc = "batch"
    /\ idx = Len(selected_skills)
    /\ output_file' = Exported(output_file, transformed)
    /\ pc' = "menu"
    /\ UNCHANGED <<skill, client, call, selected_skills, remove, idx, transformed, report>>

\* Option 5.
Exit ==
    /\ pc = "menu"
    /\ pc' = "exit"
    /\ UNCHANGED <<skill, client, call, selected_skills, remove, idx, transformed, report, output_file>>

Next == SearchAndSelect \/ StartBatch \/ TransformNext \/ FinishBatch \/ Exit

Spec == Init /\ [][Next]_vars

(***************************************************************************)
(* main: option 3, view and remove.  The input is the sequence of its     *)
(* comma-separated items, each a run of digits or another word.  The       *)
(* batch never reads remove and option 3 never reads the batch's           *)
(* variables, so the selection's menu (options 1, 2, 3 and 5) is explored  *)
(* on its own.                                                             *)
(***************************************************************************)
MaxTyped == 2

Number(n) == [digits |-> TRUE, n |-> n, word |-> ""]
Word(w) == [digits |-> FALSE, n |-> 0, word |-> w]

\* What the user types at "Remove any?": nothing, 'clear' in either case,
\* or items, numbers from 0 to one past the longest selection among them.
RemovalInputs ==
    {<<>>, <<Word("clear")>>, <<Word("CLEAR")>>}
        \cup UNION {[1..n -> {Number(k) : k \in 0..(MaxSelected + 1)} \cup {Word("x")}] :
                        n \in 1..MaxTyped}

\* str.lower() on the words of RemovalInputs.
Lower(w) == IF w = "CLEAR" THEN "clear" ELSE w

\* Line 426: remove.lower() == "clear".
IsClear(items) ==
    /\ Len(items) = 1
    /\ ~items[1].digits
    /\ Lower(items[1].word) = "clear"

\* Line 430, the comprehension: int(x)-1 for the items that are digits.
RECURSIVE Typed(_)
Typed(items) ==
    IF items = <<>> THEN <<>>
    ELSE (IF Head(items).digits THEN <<Head(items).n - 1>> ELSE <<>>)
         \o Typed(Tail(items))

\* list.pop(i): the list without the entry at index i (from 0).
Pop(list, i) == SubSeq(list, 1, i) \o SubSeq(list, i + 2, Len(list))

\* Line 430: sorted(..., reverse=True).
RECURSIVE SortedReverse(_)
SortedReverse(ns) ==
    IF ns = <<>> THEN <<>>
    ELSE LET p == CHOOSE q \in 1..Len(ns) : \A r \in 1..Len(ns) : ns[r] <= ns[q]
         IN  <<ns[p]>> \o SortedReverse(Pop(ns, p - 1))

\* Lines 431-433: each index is tested against the list as it is by then.
RECURSIVE PopEach(_, _)
PopEach(selected, indices) ==
    IF indices = <<>> THEN selected
    ELSE LET i == Head(indices)
         IN  PopEach(IF 0 <= i /\ i < Len(selected) THEN Pop(selected, i) ELSE selected,
                     Tail(indices))

\* Lines 426-434.
Removed(selected, items) ==
    IF IsClear(items) THEN <<>>
    ELSE IF items # <<>> THEN PopEach(selected, SortedReverse(Typed(items)))
    ELSE selected

\* Option 3 with a selection (with none, a message is printed and nothing
\* changes).
ViewSelected ==
    /\ pc = "menu"
    /\ selected_skills # <<>>
    /\ \E items \in RemovalInputs :
         /\ remove' = [bound |-> TRUE, items |-> items]
         /\ selected_skills' = Removed(selected_skills, items)
    /\ UNCHANGED <<skill, client, call, pc, idx, transformed, report, output_file>>

NextSelection == SearchAndSelect \/ ViewSelected \/ Exit

SpecSelection == Init /\ [][NextSelection]_vars

(***************************************************************************)
(* Properties of transform_skill.  They are stated on the finished call,   *)
(* with the level names and the minimum written out.                       *)
(***************************************************************************)
Done == call.status # "pending"

Answered == Done /\ client.kind = "text"

LevelOrder == <<"poor", "basic", "intermediate", "advanced", "exceptional">>

\* The value a candidate holds for a level, if it holds one.
HasLevel(candidate, level) ==
    /\ candidate.t = "obj"
    /\ <<"levels">> \in DOMAIN candidate.v
    /\ candidate.v[<<"levels">>].t = "obj"
    /\ <<level>> \in DOMAIN candidate.v[<<"levels">>].v

LevelValue(candidate, level) == candidate.v[<<"levels">>].v[<<level>>]

HasMinimum(r) ==
    \A k \in 1..5 :
        /\ HasLevel(r, LevelOrder[k])
        /\ LevelValue(r, LevelOrder[k]).t = "arr"
        /\ Len(LevelValue(r, LevelOrder[k]).v) >= 2

\* C1: a result that transform_skill returns holds, for each of the five
\* levels, a list of at least 2 statements; so does every element of the
\* list of results that option 4 collects and of the skills list it exports.
C1_MinimumPerLevel ==
    /\ call.status = "returned" => HasMinimum(call.result)
    /\ \A k \in 1..Len(transformed) : HasMinimum(transformed[k])
    /\ \A k \in 1..Len(output_file.skills) : HasMinimum(output_file.skills[k])

\* C1 witness: a call that returned a result found in an untagged fence.
C1_Witness ==
    /\ call.status = "returned"
    /\ call.parse.tier = 3
    /\ Len(LevelValue(call.result, "poor").v) = 2

\* C2: the lightcast_id of a returned result is the id of the input skill.
C2_IdentifierPreserved ==
    call.status = "returned" =>
        /\ <<"lightcast_id">> \in DOMAIN call.result.v
        /\ call.result.v[<<"lightcast_id">>] = JStr(<<skill["id"].s>>)

\* The entries C3 expects: one for each level, in order, whose value is
\* absent, is no list, or is a list shorter than 2; the count is the length
\* of a list and 0 otherwise.
RECURSIVE ExpectedViolations(_, _)
ExpectedViolations(candidate, k) ==
    IF k > 5 THEN <<>>
    ELSE LET level == LevelOrder[k]
             rest == ExpectedViolations(candidate, k + 1)
         IN  IF ~HasLevel(candidate, level) THEN <<[level |-> level, found |-> 0]>> \o rest
             ELSE IF LevelValue(candidate, level).t # "arr"
             THEN <<[level |-> level, found |-> 0]>> \o rest
             ELSE IF Len(LevelValue(candidate, level).v) < 2
             THEN <<[level |-> level, found |-> Len(LevelValue(candidate, level).v)]>> \o rest
             ELSE rest

\* C3: for a parsed candidate mapping, validation fails exactly when some
\* level lacks a list of 2, and then the one message holds, in level order,
\* an entry with the level and the observed count for exactly those levels.
C3_EveryViolationReported ==
    (Answered /\ call.parse.ok /\ call.parse.val.t = "obj") =>
        IF ExpectedViolations(call.parse.val, 1) = <<>>
        THEN call.status = "returned"
        ELSE /\ call.status = "raised"
             /\ call.error.type = "ValueError"
             /\ call.error.violations = ExpectedViolations(call.parse.val, 1)

\* The JSON object texts among the bodies that are sent wrapped.
JsonObjectTexts == {J \in CoreBodies : Loads(J).ok /\ Loads(J).val.t = "obj"}

\* C4: a JSON object text yields the same parsed object alone, in a fence
\* tagged json and in an untagged fence, with or without commentary outside
\* the fence.
C4_SameObjectHoweverFenced ==
    \A J \in JsonObjectTexts :
        \A style \in {"bare", "tagged", "untagged", "said_tagged", "said_untagged"} :
            (Answered /\ call.response_text = Strip(Wrap(style, J))) =>
                (call.parse.ok /\ call.parse.val = Loads(J).val)

\* The tokens of text from position p up to the next fence.
UpToFence(text, p) ==
    LET rest == SubSeq(text, p, Len(text))
        q == Find(rest, <<FENCE>>)
    IN  IF q = 0 THEN rest ELSE SubSeq(rest, 1, q - 1)

\* What lies between the first fence tagged json and the next fence, and
\* between the first pair of fences, trimmed.
TaggedBlock(text) == Strip(UpToFence(text, Find(text, TAG) + 2))
FirstBlock(text) == Strip(UpToFence(text, Find(text, <<FENCE>>) + 1))

NoTierParses(text) ==
    /\ ~Loads(text).ok
    /\ Contains(text, TAG) => ~Loads(TaggedBlock(text)).ok
    /\ Contains(text, <<FENCE>>) => ~Loads(FirstBlock(text)).ok

\* C5 as stated: when no tier yields parseable JSON the call raises the
\* parse failure of the whole-text attempt.
C5_OriginalFailurePropagated ==
    (Answered /\ NoTierParses(call.response_text)) =>
        /\ call.status = "raised"
        /\ call.error = JSONDecodeError(call.response_text)

\* C5 amended: when no tier yields parseable JSON the call returns no result
\* and raises a JSON parse failure: that of the whole text when the text
\* holds no fence, otherwise that of the fenced substring the code tried
\* (the block tagged json if there is one, else the first block).
C5_ParseFailurePropagated ==
    (Answered /\ NoTierParses(call.response_text)) =>
        /\ call.status = "raised"
        /\ call.result = JNull
        /\ call.error =
             JSONDecodeError(
                IF Contains(call.response_text, TAG) THEN TaggedBlock(call.response_text)
                ELSE IF Contains(call.response_text, <<FENCE>>)
                THEN FirstBlock(call.response_text)
                ELSE call.response_text)

\* C5 witness: a fenced response that no tier can parse.
C5_Witness ==
    /\ Answered
    /\ NoTierParses(call.response_text)
    /\ Contains(call.response_text, TAG)
    /\ call.status = "raised"
    /\ call.error.doc # call.response_text

\* C7: a finished call has invoked the model client exactly once, however
\* it ended, and it ended by returning or by raising.
C7_OneInvocation ==
    /\ ~Done => client.calls = 0
    /\ Done => /\ call.calls = 1
               /\ client.calls = 1
               /\ call.status \in {"returned", "raised"}

\* C7 witness: a call that failed validation after its one invocation.
C7_Witness ==
    /\ Done
    /\ call.status = "raised"
    /\ call.error.type = "ValueError"
    /\ client.calls = 1

\* C8: the prompt holds the placeholder when the description is missing,
\* empty or null, and the skill's description otherwise.
C8_PlaceholderForNoDescription ==
    Done =>
        call.prompt.skill_description =
            IF "description" \notin DOMAIN skill THEN "No description available"
            ELSE IF skill["description"].t = "none" \/ skill["description"].s = ""
            THEN "No description available"
            ELSE skill["description"].s

\* C9 as stated: when the whole text and the block tagged json both fail to
\* parse, the first fenced block is parsed and returned if it parses.
C9_UntaggedTriedAfterTagged ==
    ( /\ Answered
      /\ ~Loads(call.response_text).ok
      /\ Contains(call.response_text, TAG)
      /\ ~Loads(TaggedBlock(call.response_text)).ok
      /\ Loads(FirstBlock(call.response_text)).ok ) =>
        /\ call.parse.ok
        /\ call.parse.val = Loads(FirstBlock(call.response_text)).val

\* Whether the extraction ended as parsing doc ends.
EndsAs(parse, doc) ==
    /\ parse.ok = Loads(doc).ok
    /\ parse.ok => parse.val = Loads(doc).val
    /\ ~parse.ok => parse.error = JSONDecodeError(doc)

\* C9 amended: the whole text is parsed first; when that fails, exactly one
\* fenced substring is tried and decides the outcome: the block tagged json
\* when the text has one (if it does not parse, its failure is raised and
\* the first untagged block is not tried), else the first fenced block.
C9_OneFencedBlockTried ==
    Answered =>
        IF Loads(call.response_text).ok
        THEN EndsAs(call.parse, call.response_text)
        ELSE IF Contains(call.response_text, TAG)
        THEN EndsAs(call.parse, TaggedBlock(call.response_text))
        ELSE IF Contains(call.response_text, <<FENCE>>)
        THEN EndsAs(call.parse, FirstBlock(call.response_text))
        ELSE EndsAs(call.parse, call.response_text)

\* C9 witness: a valid untagged block before a broken block tagged json,
\* and the call raised.
C9_Witness ==
    /\ Answered
    /\ ~Loads(call.response_text).ok
    /\ Contains(call.response_text, TAG)
    /\ ~Loads(TaggedBlock(call.response_text)).ok
    /\ Loads(FirstBlock(call.response_text)).ok
    /\ call.status = "raised"

(***************************************************************************)
(* Properties of the batch transformation.                                 *)
(***************************************************************************)
Mentions(error, sk) ==
    /\ \E n \in 1..Len(error.notes) : error.notes[n] = sk["id"].s
    /\ \E n \in 1..Len(error.notes) : error.notes[n] = sk["name"].s

\* C6 as stated: an error that transform_skill raises carries the skill's
\* identifier and name.
C6_ErrorsAnnotated ==
    call.status = "raised" => Mentions(call.error, skill)

\* C6 amended: an error that transform_skill raises reaches the caller with
\* nothing about the skill attached; in a batch the caller reports it on the
\* progress line it began with the skill's name.
C6_CallerNamesFailedSkill ==
    /\ call.status = "raised" => call.error.type # "none" /\ call.error.notes = <<>>
    /\ pc = "batch" =>
         \A k \in 1..Len(report) :
            /\ report[k].name = selected_skills[k]["name"].s
            /\ ~report[k].ok => report[k].error.type # "none" /\ report[k].error.notes = <<>>
    /\ (pc = "batch" /\ report # <<>> /\ call.status = "raised") =>
         /\ ~report[Len(report)].ok
         /\ report[Len(report)].error = call.error
         /\ report[Len(report)].name = skill["name"].s

\* C6 witness: a failed attempt reported for the second selected skill.
C6_Witness ==
    /\ pc = "batch"
    /\ Len(report) = 2
    /\ ~report[2].ok
    /\ call.status = "raised"
    /\ call.error.type = "ValueError"

\* The results of the attempts that succeeded, in the order of the lines.
RECURSIVE Successes(_)
Successes(lines) ==
    IF lines = <<>> THEN <<>>
    ELSE (IF Head(lines).ok THEN <<Head(lines).result>> ELSE <<>>) \o Successes(Tail(lines))

C10_Attempts ==
    pc = "batch" =>
        /\ idx <= Len(selected_skills)
        /\ Len(report) = idx
        /\ \A k \in 1..Len(report) :
              /\ report[k].i = k
              /\ report[k].name = selected_skills[k]["name"].s
              /\ report[k].ok = (report[k].error.type = "none")
        /\ (report # <<>> /\ Done) =>
              /\ report[Len(report)].ok = (call.status = "returned")
              /\ report[Len(report)].result = call.result
              /\ report[Len(report)].error = call.error
        /\ transformed = Successes(report)

C10_Leaving ==
    (pc = "batch" /\ pc' # "batch") =>
        /\ Len(report) = Len(selected_skills)
        /\ pc' = "menu"
        /\ output_file' =
             IF Successes(report) = <<>> THEN output_file
             ELSE [exists |-> TRUE, framework |-> "People Protocol", version |-> "1.0",
                   skills |-> Successes(report)]

\* C10: in a batch a failed attempt does not end the batch: the selected
\* skills are attempted once each in selection order, each attempt is
\* reported, the collected results are those of the successful attempts in
\* that order, and the batch is left only after the last attempt, writing
\* the file with exactly these results, or not at all when there are none.
C10_BatchGoesOn == [][C10_Attempts' /\ C10_Leaving]_vars

\* C10 witness: a batch left after a failed first attempt and a successful
\* second one.
C10_Witness ==
    /\ pc = "menu"
    /\ Len(report) = 2
    /\ ~report[1].ok
    /\ report[2].ok
    /\ output_file.exists
    /\ output_file.skills = <<report[2].result>>

(***************************************************************************)
(* Properties of option 3.                                                 *)
(***************************************************************************)

\* The displayed positions (from 1) a removal input names.
Named(selected, items) ==
    {k \in 1..Len(selected) : \E j \in 1..Len(items) : items[j].digits /\ items[j].n = k}

\* The entries from position k on whose positions are not in gone, in
\* their order.
RECURSIVE Without(_, _, _)
Without(selected, gone, k) ==
    IF k > Len(selected) THEN <<>>
    ELSE (IF k \in gone THEN <<>> ELSE <<selected[k]>>) \o Without(selected, gone, k + 1)

\* What option 3 is to leave of the selection.
Remaining(selected, items) ==
    IF items = <<>> THEN selected
    ELSE IF items \in {<<Word("clear")>>, <<Word("CLEAR")>>} THEN <<>>
    ELSE Without(selected, Named(selected, items), 1)

\* C11: option 3 removes exactly the entries at the displayed positions the
\* input names, each once and whatever else the input holds, and leaves the
\* others in their order; 'clear' empties the selection and an empty input
\* leaves it as it was.
C11_NamedPositionsRemoved ==
    [][ViewSelected => selected_skills' = Remaining(selected_skills, remove'.items)]_vars

====
